---- MODULE Spec2Model ----
(***************************************************************************)
(* Model of app/src/server.c: the server bootstrap and transport core.     *)
(* Two threads act on one struct server: the lifecycle thread (server_start*)
(* server_connect_to, server_stop, server_destroy) and the watchdog thread *)
(* (run_wait_server).  The environment is the adb bridge, the loopback     *)
(* socket layer, the HTTP endpoint of direct mode and the agent process.   *)
(***************************************************************************)
EXTENDS Integers, Sequences, FiniteSets, TLC

\* ------------------------------------------------------------------ bounds
\* The port sweep is explored over the MaxPorts highest 16-bit ports, so that
\* every range ends at or near 0xFFFF.
MaxPorts == 3
\* connect_to_server on its own is explored for attempts in 0..MaxAttempts.
MaxAttempts == 8

\* ------------------------------------------------------- program constants
\* uint16_t port: the port counter lives modulo 2^16.
PortModulus == 65536
\* uint32_t attempts: decrementing 0 wraps to UINT32_MAX.  The value stands
\* for 2^32 - 1: it is the largest integer of the checker, likewise nonzero
\* and never counted down to zero within a run.
UINT32_MAX == 2147483647
\* attempts of the direct and of the forward connect.
DirectAttempts == 12
ForwardAttempts == 100

INVALID_SOCKET == "INVALID"
PROCESS_NONE == "NONE"
SDL_MUTEX_TIMEDOUT == "TIMEDOUT"

\* Handles of the three sockets of struct server, and of the agent process.
ListenSock == "L"
VideoSock == "V"
ControlSock == "C"
AgentProcess == "P"

UINT16_MAX == PortModulus - 1
Ports == (PortModulus - MaxPorts)..UINT16_MAX

VARIABLES
    server,          \* struct server
    params,          \* const struct server_params *params, and serial
    busy,            \* environment: the ports on which net_listen fails
    pc,              \* lifecycle thread: where it is
    wpc,             \* watchdog thread: where it is
    port,            \* local of the port sweeps
    attempts,        \* local of connect_to_server
    r,               \* local of server_stop
    mutex,           \* owner of server->mutex
    signalled,       \* process_terminated_cond signalled to the waiter
    agent,           \* agent process: "none", "alive", "exited"
    reaped,          \* cmd_simple_wait has returned for the agent
    backlog,         \* connections of the agent pending on the listener
    sock,            \* state of each socket handle
    boundPort,       \* port the listener is bound to
    tunnels,         \* tunnels registered in the bridge
    owed,            \* tunnels enabled with no remove issued yet
    removeFailed,    \* some remove command has failed
    closeCalls,      \* close_socket calls per valid handle
    closeInvalid,    \* close_socket(INVALID_SOCKET) calls
    tasWinners,      \* actors that found server_socket_closed clear
    closers,         \* actors that closed the listener
    sweepLog,        \* events of the reverse sweep
    fwdLog,          \* ports tried by the forward sweep
    wrapped,         \* the port counter has wrapped
    revResult,       \* result of enable_tunnel_reverse_any_port
    revCmdFailed,    \* some adb reverse command has failed
    established,     \* streams established, in order
    controlAttempted,\* a control accept/connect has been issued
    start_ret,       \* result of server_start
    connect_ret,     \* result of server_connect_to
    assertFailed,    \* assertions that have failed
    serialFrees,     \* SDL_free calls on the duplicated serial
    httpLog,         \* HttpCtl requests issued
    syncDestroyed,   \* mutex and condition variable destroyed
    terminateCalls,  \* handles passed to cmd_terminate
    loop             \* a call of connect_to_server taken on its own

cfgVars == <<params, busy, loop>>
envVars == <<agent, reaped, backlog>>
closeVars == <<sock, closeCalls, closeInvalid, closers, assertFailed>>
bridgeVars == <<tunnels, owed, removeFailed>>
sweepVars == <<port, sweepLog, fwdLog, wrapped, revResult, revCmdFailed>>
connVars == <<attempts, established, controlAttempted, connect_ret>>
syncVars == <<mutex, signalled, r>>
miscVars == <<boundPort, tasWinners, start_ret, serialFrees, httpLog,
              syncDestroyed, terminateCalls>>

vars == <<server, pc, wpc, cfgVars, envVars, closeVars, bridgeVars, sweepVars,
          connVars, syncVars, miscVars>>

\* ------------------------------------------------------------ server_init
server_init ==
    [serial |-> "NULL",
     process |-> PROCESS_NONE,
     wait_server_thread |-> "NULL",
     server_socket_closed |-> FALSE,
     process_terminated |-> FALSE,
     server_socket |-> INVALID_SOCKET,
     video_socket |-> INVALID_SOCKET,
     control_socket |-> INVALID_SOCKET,
     port_range |-> [first |-> 0, last |-> 0],
     local_port |-> 0,
     tunnel_enabled |-> FALSE,
     tunnel_forward |-> FALSE,
     direct |-> FALSE]

\* The caller's inputs: a port range first <= last (the ranges that end at
\* 0xFFFF and the one that ends just below it), force_adb_forward, whether a
\* serial is given, and whether it selected direct mode after server_init.
PortRanges ==
    {[first |-> a, last |-> UINT16_MAX] : a \in Ports}
    \cup {[first |-> PortModulus - MaxPorts, last |-> UINT16_MAX - 1]}

\* The state server_init leaves, but for struct server and the inputs.
InitState ==
    /\ pc = "initialized"
    /\ wpc = "none"
    /\ port = 0
    /\ attempts = 0
    /\ r = "0"
    /\ mutex = "free"
    /\ signalled = FALSE
    /\ agent = "none"
    /\ reaped = FALSE
    /\ backlog = 0
    /\ sock = [h \in {ListenSock, VideoSock, ControlSock} |-> "unopened"]
    /\ boundPort = 0
    /\ tunnels = {}
    /\ owed = {}
    /\ removeFailed = FALSE
    /\ closeCalls = [h \in {ListenSock, VideoSock, ControlSock} |-> 0]
    /\ closeInvalid = 0
    /\ tasWinners = {}
    /\ closers = {}
    /\ sweepLog = <<>>
    /\ fwdLog = <<>>
    /\ wrapped = FALSE
    /\ revResult = "none"
    /\ revCmdFailed = FALSE
    /\ established = <<>>
    /\ controlAttempted = FALSE
    /\ start_ret = "none"
    /\ connect_ret = "none"
    /\ assertFailed = {}
    /\ serialFrees = 0
    /\ httpLog = <<>>
    /\ syncDestroyed = FALSE
    /\ terminateCalls = <<>>

\* No call of connect_to_server on its own.
NoLoop ==
    [state |-> "none", given |-> 0, attempts |-> 0, okAt |-> 0,
     socket |-> INVALID_SOCKET, probes |-> 0, sleeps |-> 0,
     lastWasDelay |-> FALSE]

Init ==
    /\ loop = NoLoop
    /\ InitState
    /\ \E d \in BOOLEAN :
         server = [server_init EXCEPT !.direct = d]
    /\ \E pr \in {x \in PortRanges : x.first <= x.last},
          f \in BOOLEAN, s \in BOOLEAN :
         /\ params = [port_range |-> pr, force_adb_forward |-> f, serial |-> s]
         /\ server.direct => ~f
    /\ \E b \in SUBSET Ports :
         /\ b \subseteq params.port_range.first..params.port_range.last
         /\ (server.direct \/ params.force_adb_forward) => b = {}
         /\ busy = b

\* ----------------------------------------------------------------- helpers
ReverseTunnel(p) == [kind |-> "reverse", port |-> p]
ForwardTunnel(p) == [kind |-> "forward", port |-> p]

\* adb reverse localabstract:scrcpy tcp:p, when it succeeds: the tunnel is
\* keyed by the socket name, so it replaces any reverse tunnel of that name.
enable_tunnel_reverse(p) ==
    /\ tunnels' = {t \in tunnels : t.kind # "reverse"} \cup {ReverseTunnel(p)}
    /\ owed' = owed \cup {ReverseTunnel(p)}
    /\ UNCHANGED removeFailed

\* adb reverse --remove localabstract:scrcpy, with its exit status.
disable_tunnel_reverse(ok) ==
    /\ tunnels' = IF ok THEN {t \in tunnels : t.kind # "reverse"} ELSE tunnels
    /\ owed' = {t \in owed : t.kind # "reverse"}
    /\ removeFailed' = (removeFailed \/ ~ok)

\* adb forward tcp:p localabstract:scrcpy, when it succeeds.
enable_tunnel_forward(p) ==
    /\ tunnels' = tunnels \cup {ForwardTunnel(p)}
    /\ owed' = owed \cup {ForwardTunnel(p)}
    /\ UNCHANGED removeFailed

\* adb forward --remove tcp:p, with its exit status.
disable_tunnel_forward(p, ok) ==
    /\ tunnels' = IF ok THEN tunnels \ {ForwardTunnel(p)} ELSE tunnels
    /\ owed' = owed \ {ForwardTunnel(p)}
    /\ removeFailed' = (removeFailed \/ ~ok)

\* Mutant of disable_tunnel: the mode is ignored, the reverse tunnel is the
\* one removed.
disable_tunnel_reverse_only(ok) == disable_tunnel_reverse(ok)

disable_tunnel(ok) ==
    IF server.tunnel_forward
    THEN disable_tunnel_forward(server.local_port, ok)
    ELSE disable_tunnel_reverse(ok)

\* net_listen(IPV4_LOCALHOST, port, 1): fails on the busy ports.
listen_on_port(p) == IF p \in busy THEN INVALID_SOCKET ELSE ListenSock

\* Mutant of has_next_port: the last port of the range is incremented too.
has_next_port_inclusive(p, last) == p <= last

\* "check before incrementing to avoid overflow on port 65535"
has_next_port(p, last) == p < last

\* port++ on a uint16_t
next_port(p) == (p + 1) % PortModulus

\* close_socket(socket) called by actor: assert(socket != INVALID_SOCKET),
\* then net_shutdown and net_close.
close_socket(h, actor) ==
    IF h = INVALID_SOCKET
    THEN /\ assertFailed' = assertFailed \cup {"close_socket"}
         /\ closeInvalid' = closeInvalid + 1
         /\ UNCHANGED <<sock, closeCalls, closers>>
    ELSE /\ sock' = [sock EXCEPT ![h] = "closed"]
         /\ closeCalls' = [closeCalls EXCEPT ![h] = @ + 1]
         /\ closers' = IF h = ListenSock THEN closers \cup {actor} ELSE closers
         /\ UNCHANGED <<assertFailed, closeInvalid>>

\* Where a thread is after assert(cond): a build with assertions aborts when
\* cond is false, a build with NDEBUG goes on.
AfterAssert(cond, next) == IF cond THEN {next} ELSE {"aborted", next}

\* atomic_flag_test_and_set(&server->server_socket_closed) by actor; the
\* result (the old value of the flag) is server.server_socket_closed.
atomic_flag_test_and_set(actor) ==
    /\ server' = [server EXCEPT !.server_socket_closed = TRUE]
    /\ tasWinners' = IF server.server_socket_closed
                     THEN tasWinners
                     ELSE tasWinners \cup {actor}

\* cmd_terminate(process): kills the agent when the handle is the agent's.
cmd_terminate(process) ==
    /\ terminateCalls' = Append(terminateCalls, process)
    /\ agent' = IF process = AgentProcess /\ agent = "alive"
                THEN "exited" ELSE agent

\* SDL_free(server->serial): a no-op on NULL; a second free of the same
\* buffer is counted.
SDL_free_serial(next_server) ==
    /\ server' = [next_server EXCEPT
                    !.serial = IF @ = "NULL" THEN "NULL" ELSE "freed"]
    /\ serialFrees' = IF server.serial = "NULL"
                      THEN serialFrees ELSE serialFrees + 1

\* ------------------------------------------------------------ server_start
\* server->port_range = params->port_range; strdup of the serial.
server_start_entry ==
    /\ pc = "initialized"
    /\ \E ok \in BOOLEAN :
         /\ (~params.serial) => ok
         /\ server' = [server EXCEPT
                         !.port_range = params.port_range,
                         !.serial = IF params.serial /\ ok
                                    THEN "owned" ELSE @]
         /\ IF ~ok
            THEN pc' = "start_failed" /\ start_ret' = "false"
            ELSE /\ pc' = IF server.direct THEN "start_curl" ELSE "start_push"
                 /\ UNCHANGED start_ret
    /\ UNCHANGED <<wpc, cfgVars, envVars, closeVars, bridgeVars, sweepVars,
                   connVars, syncVars, boundPort, tasWinners, serialFrees,
                   httpLog, syncDestroyed, terminateCalls>>

\* execute_server_curl: GET {url}/startScrcpy/...
server_start_curl ==
    /\ pc = "start_curl"
    /\ httpLog' = Append(httpLog, "startScrcpy")
    /\ \E ok \in BOOLEAN : pc' = IF ok THEN "start_thread" ELSE "error2"
    /\ UNCHANGED <<server, wpc, cfgVars, envVars, closeVars, bridgeVars,
                   sweepVars, connVars, syncVars, boundPort, tasWinners,
                   start_ret, serialFrees, syncDestroyed, terminateCalls>>

\* push_server(serial)
server_start_push ==
    /\ pc = "start_push"
    /\ \E ok \in BOOLEAN : pc' = IF ok THEN "tunnel_any_port" ELSE "error1"
    /\ UNCHANGED <<server, wpc, cfgVars, envVars, closeVars, bridgeVars,
                   sweepVars, connVars, syncVars, miscVars>>

\* Mutant of enable_tunnel_any_port: force_adb_forward is ignored, the
\* reverse strategy is always tried first.
enable_tunnel_any_port_reverse_first ==
    /\ pc = "tunnel_any_port"
    /\ port' = params.port_range.first
    /\ pc' = "rev_enable"
    /\ UNCHANGED <<server, wpc, cfgVars, envVars, closeVars, bridgeVars,
                   sweepLog, fwdLog, wrapped, revResult, revCmdFailed,
                   connVars, syncVars, miscVars>>

\* enable_tunnel_any_port, up to the first command of the strategy it picks
enable_tunnel_any_port ==
    /\ pc = "tunnel_any_port"
    /\ IF ~params.force_adb_forward
       THEN /\ port' = params.port_range.first
            /\ pc' = "rev_enable"
       ELSE /\ pc' = "fwd_begin"
            /\ UNCHANGED port
    /\ UNCHANGED <<server, wpc, cfgVars, envVars, closeVars, bridgeVars,
                   sweepLog, fwdLog, wrapped, revResult, revCmdFailed,
                   connVars, syncVars, miscVars>>

\* enable_tunnel_reverse_any_port: the adb reverse command of an iteration
reverse_any_port_enable ==
    /\ pc = "rev_enable"
    /\ \E ok \in BOOLEAN :
         /\ sweepLog' = Append(sweepLog, <<"reverse", port, ok>>)
         /\ IF ok
            THEN /\ enable_tunnel_reverse(port)
                 /\ pc' = "rev_listen"
                 /\ UNCHANGED <<revResult, revCmdFailed>>
            ELSE /\ revResult' = "fail"
                 /\ revCmdFailed' = TRUE
                 /\ pc' = "fwd_begin"
                 /\ UNCHANGED bridgeVars
    /\ UNCHANGED <<server, wpc, cfgVars, envVars, closeVars, port, fwdLog,
                   wrapped, connVars, syncVars, miscVars>>

\* enable_tunnel_reverse_any_port: listen_on_port of an iteration
reverse_any_port_listen ==
    /\ pc = "rev_listen"
    /\ LET s == listen_on_port(port) IN
         /\ sweepLog' = Append(sweepLog, <<"listen", port, s # INVALID_SOCKET>>)
         /\ IF s # INVALID_SOCKET
            THEN /\ server' = [server EXCEPT !.server_socket = s,
                                             !.local_port = port]
                 /\ sock' = [sock EXCEPT ![s] = "open"]
                 /\ boundPort' = port
                 /\ revResult' = "ok"
                 /\ pc' = "start_exec"
            ELSE /\ server' = [server EXCEPT !.server_socket = s]
                 /\ pc' = "rev_disable"
                 /\ UNCHANGED <<sock, boundPort, revResult>>
    /\ UNCHANGED <<wpc, cfgVars, envVars, closeCalls, closeInvalid, closers,
                   assertFailed, bridgeVars, port, fwdLog, wrapped,
                   revCmdFailed, connVars, syncVars, tasWinners, start_ret,
                   serialFrees, httpLog, syncDestroyed, terminateCalls>>

\* Mutant of reverse_any_port_next: the tunnel of the failed port is left
\* registered.
reverse_any_port_next_no_remove ==
    /\ pc = "rev_disable"
    /\ IF has_next_port(port, params.port_range.last)
       THEN /\ port' = next_port(port)
            /\ wrapped' = (wrapped \/ port + 1 >= PortModulus)
            /\ pc' = "rev_enable"
            /\ UNCHANGED revResult
       ELSE /\ revResult' = "fail"
            /\ pc' = "fwd_begin"
            /\ UNCHANGED <<port, wrapped>>
    /\ UNCHANGED <<server, wpc, cfgVars, envVars, closeVars, bridgeVars,
                   sweepLog, fwdLog, revCmdFailed, connVars, syncVars,
                   miscVars>>

\* enable_tunnel_reverse_any_port: after a failed listen, remove the tunnel
\* and go to the next port, if there is one
reverse_any_port_next ==
    /\ pc = "rev_disable"
    /\ \E ok \in BOOLEAN :
         /\ disable_tunnel_reverse(ok)
         /\ sweepLog' = Append(sweepLog, <<"remove", port, TRUE>>)
    /\ IF has_next_port(port, params.port_range.last)
       THEN /\ port' = next_port(port)
            /\ wrapped' = (wrapped \/ port + 1 >= PortModulus)
            /\ pc' = "rev_enable"
            /\ UNCHANGED revResult
       ELSE /\ revResult' = "fail"
            /\ pc' = "fwd_begin"
            /\ UNCHANGED <<port, wrapped>>
    /\ UNCHANGED <<server, wpc, cfgVars, envVars, closeVars, fwdLog,
                   revCmdFailed, connVars, syncVars, miscVars>>

\* enable_tunnel_forward_any_port: entry
forward_any_port_entry ==
    /\ pc = "fwd_begin"
    /\ server' = [server EXCEPT !.tunnel_forward = TRUE]
    /\ port' = params.port_range.first
    /\ pc' = "fwd_enable"
    /\ UNCHANGED <<wpc, cfgVars, envVars, closeVars, bridgeVars, sweepLog,
                   fwdLog, wrapped, revResult, revCmdFailed, connVars,
                   syncVars, miscVars>>

\* enable_tunnel_forward_any_port: one iteration
forward_any_port_enable ==
    /\ pc = "fwd_enable"
    /\ fwdLog' = Append(fwdLog, port)
    /\ \E ok \in BOOLEAN :
         IF ok
         THEN /\ enable_tunnel_forward(port)
              /\ server' = [server EXCEPT !.local_port = port]
              /\ pc' = "start_exec"
              /\ UNCHANGED <<port, wrapped>>
         ELSE /\ IF has_next_port(port, params.port_range.last)
                 THEN /\ port' = next_port(port)
                      /\ wrapped' = (wrapped \/ port + 1 >= PortModulus)
                      /\ pc' = "fwd_enable"
                 ELSE /\ pc' = "error1"
                      /\ UNCHANGED <<port, wrapped>>
              /\ UNCHANGED <<server, bridgeVars>>
    /\ UNCHANGED <<wpc, cfgVars, envVars, closeVars, sweepLog, revResult,
                   revCmdFailed, connVars, syncVars, miscVars>>

\* server->process = execute_server_adb(server, params)
server_start_exec ==
    /\ pc = "start_exec"
    /\ \E ok \in BOOLEAN :
         IF ok
         THEN /\ server' = [server EXCEPT !.process = AgentProcess]
              /\ agent' = "alive"
              /\ pc' = "start_thread"
         ELSE /\ server' = [server EXCEPT !.process = PROCESS_NONE]
              /\ pc' = "error2"
              /\ UNCHANGED agent
    /\ UNCHANGED <<wpc, cfgVars, reaped, backlog, closeVars, bridgeVars,
                   sweepVars, connVars, syncVars, miscVars>>

\* SDL_CreateThread(run_wait_server, ...); on success tunnel_enabled = true
\* and return true; on failure cmd_terminate, cmd_simple_wait, goto error2
server_start_thread ==
    /\ pc = "start_thread"
    /\ \E ok \in BOOLEAN :
         IF ok
         THEN /\ server' = [server EXCEPT !.wait_server_thread = "T",
                                          !.tunnel_enabled = TRUE]
              /\ wpc' = "wait"
              /\ start_ret' = "true"
              /\ pc' = "started"
              /\ UNCHANGED <<agent, reaped, terminateCalls>>
         ELSE /\ cmd_terminate(server.process)
              /\ reaped' = (server.process = AgentProcess)
              /\ pc' = "error2"
              /\ UNCHANGED <<server, wpc, start_ret>>
    /\ UNCHANGED <<cfgVars, backlog, closeVars, bridgeVars, sweepVars,
                   connVars, syncVars, boundPort, tasWinners, serialFrees,
                   httpLog, syncDestroyed>>

\* error2: in reverse mode (tunnel_forward false), take the flag and close
\* the listener
server_start_error2 ==
    /\ pc = "error2"
    /\ IF ~server.tunnel_forward
       THEN /\ atomic_flag_test_and_set("start")
            /\ close_socket(server.server_socket, "start")
            /\ pc' \in AfterAssert(~server.server_socket_closed
                                     /\ server.server_socket # INVALID_SOCKET,
                                   "error2_tunnel")
       ELSE /\ pc' = "error2_tunnel"
            /\ UNCHANGED <<server, tasWinners, closeVars>>
    /\ UNCHANGED <<wpc, cfgVars, envVars, bridgeVars, sweepVars, connVars,
                   syncVars, boundPort, start_ret, serialFrees, httpLog,
                   syncDestroyed, terminateCalls>>

\* Mutant of server_start_error2_tunnel: error2 falls through to error1
\* without removing the tunnel.
server_start_error2_tunnel_skipped ==
    /\ pc = "error2_tunnel"
    /\ pc' = "error1"
    /\ UNCHANGED <<server, wpc, cfgVars, envVars, closeVars, bridgeVars,
                   sweepVars, connVars, syncVars, miscVars>>

\* error2, continued: stop_server_curl in direct mode, else disable_tunnel
server_start_error2_tunnel ==
    /\ pc = "error2_tunnel"
    /\ IF server.direct
       THEN /\ httpLog' = Append(httpLog, "stopScrcpy")
            /\ UNCHANGED bridgeVars
       ELSE /\ \E ok \in BOOLEAN : disable_tunnel(ok)
            /\ UNCHANGED httpLog
    /\ pc' = "error1"
    /\ UNCHANGED <<server, wpc, cfgVars, envVars, closeVars, sweepVars,
                   connVars, syncVars, boundPort, tasWinners, start_ret,
                   serialFrees, syncDestroyed, terminateCalls>>

\* error1: SDL_free(server->serial); return false
server_start_error1 ==
    /\ pc = "error1"
    /\ SDL_free_serial(server)
    /\ start_ret' = "false"
    /\ pc' = "start_failed"
    /\ UNCHANGED <<wpc, cfgVars, envVars, closeVars, bridgeVars, sweepVars,
                   connVars, syncVars, boundPort, tasWinners, httpLog,
                   syncDestroyed, terminateCalls>>

server_start ==
    \/ server_start_entry
    \/ server_start_curl
    \/ server_start_push
    \/ enable_tunnel_any_port
    \/ reverse_any_port_enable
    \/ reverse_any_port_listen
    \/ reverse_any_port_next
    \/ forward_any_port_entry
    \/ forward_any_port_enable
    \/ server_start_exec
    \/ server_start_thread
    \/ server_start_error2
    \/ server_start_error2_tunnel
    \/ server_start_error1

\* ---------------------------------------------------------- agent process
\* Streams the agent has connected to the listener so far.
AgentStreams ==
    backlog + (IF server.video_socket # INVALID_SOCKET THEN 1 ELSE 0)
            + (IF server.control_socket # INVALID_SOCKET THEN 1 ELSE 0)

\* The agent connects one more stream into the reverse tunnel.
agent_connects ==
    /\ agent = "alive"
    /\ ~server.direct /\ ~server.tunnel_forward
    /\ sock[ListenSock] = "open"
    /\ AgentStreams < 2
    /\ backlog' = backlog + 1
    /\ UNCHANGED <<server, pc, wpc, cfgVars, agent, reaped, closeVars,
                   bridgeVars, sweepVars, connVars, syncVars, miscVars>>

\* The agent process exits by itself.
agent_exits ==
    /\ agent = "alive"
    /\ agent' = "exited"
    /\ UNCHANGED <<server, pc, wpc, cfgVars, reaped, backlog, closeVars,
                   bridgeVars, sweepVars, connVars, syncVars, miscVars>>

\* --------------------------------------------------------- run_wait_server
\* cmd_simple_wait(server->process, NULL) on the agent's handle
run_wait_server_wait ==
    /\ wpc = "wait"
    /\ server.process = AgentProcess
    /\ agent = "exited"
    /\ reaped' = TRUE
    /\ wpc' = "lock"
    /\ UNCHANGED <<server, pc, cfgVars, agent, backlog, closeVars, bridgeVars,
                   sweepVars, connVars, syncVars, miscVars>>

\* cmd_simple_wait(PROCESS_NONE, NULL): there is no process to wait for, the
\* call returns when the platform makes it return
run_wait_server_wait_none ==
    /\ wpc = "wait"
    /\ server.process = PROCESS_NONE
    /\ wpc' = "lock"
    /\ UNCHANGED <<server, pc, cfgVars, envVars, closeVars, bridgeVars,
                   sweepVars, connVars, syncVars, miscVars>>

\* mutex_lock(server->mutex)
run_wait_server_lock ==
    /\ wpc = "lock"
    /\ mutex = "free"
    /\ mutex' = "watchdog"
    /\ wpc' = "set"
    /\ UNCHANGED <<server, pc, cfgVars, envVars, closeVars, bridgeVars,
                   sweepVars, connVars, signalled, r, miscVars>>

\* server->process_terminated = true; cond_signal(process_terminated_cond)
run_wait_server_signal ==
    /\ wpc = "set"
    /\ server' = [server EXCEPT !.process_terminated = TRUE]
    /\ signalled' = (signalled \/ pc = "stop_waiting")
    /\ wpc' = "unlock"
    /\ UNCHANGED <<pc, cfgVars, envVars, closeVars, bridgeVars, sweepVars,
                   connVars, mutex, r, miscVars>>

\* mutex_unlock(server->mutex)
run_wait_server_unlock ==
    /\ wpc = "unlock"
    /\ mutex' = "free"
    /\ wpc' = "check"
    /\ UNCHANGED <<server, pc, cfgVars, envVars, closeVars, bridgeVars,
                   sweepVars, connVars, signalled, r, miscVars>>

\* Mutant of run_wait_server_check: the listener is closed without taking
\* server_socket_closed.
run_wait_server_check_no_flag ==
    /\ wpc = "check"
    /\ wpc' = IF server.server_socket # INVALID_SOCKET THEN "close" ELSE "done"
    /\ UNCHANGED <<server, pc, cfgVars, envVars, closeVars, bridgeVars,
                   sweepVars, connVars, syncVars, miscVars>>

\* if (server_socket != INVALID_SOCKET && !atomic_flag_test_and_set(...))
run_wait_server_check ==
    /\ wpc = "check"
    /\ IF server.server_socket # INVALID_SOCKET
       THEN /\ atomic_flag_test_and_set("watchdog")
            /\ wpc' = IF server.server_socket_closed THEN "done" ELSE "close"
       ELSE /\ wpc' = "done"
            /\ UNCHANGED <<server, tasWinners>>
    /\ UNCHANGED <<pc, cfgVars, envVars, closeVars, bridgeVars, sweepVars,
                   connVars, syncVars, boundPort, start_ret, serialFrees,
                   httpLog, syncDestroyed, terminateCalls>>

\* Mutant of run_wait_server_close: the watchdog returns without closing the
\* listener.
run_wait_server_close_skipped ==
    /\ wpc = "close"
    /\ wpc' = "done"
    /\ UNCHANGED <<server, pc, cfgVars, envVars, closeVars, bridgeVars,
                   sweepVars, connVars, syncVars, miscVars>>

\* close_socket(server->server_socket)
run_wait_server_close ==
    /\ wpc = "close"
    /\ close_socket(server.server_socket, "watchdog")
    /\ wpc' = "done"
    /\ UNCHANGED <<server, pc, cfgVars, envVars, bridgeVars, sweepVars,
                   connVars, syncVars, miscVars>>

run_wait_server ==
    \/ run_wait_server_wait
    \/ run_wait_server_wait_none
    \/ run_wait_server_lock
    \/ run_wait_server_signal
    \/ run_wait_server_unlock
    \/ run_wait_server_check
    \/ run_wait_server_close

\* ------------------------------------------------------- server_connect_to
\* --attempts on a uint32_t
dec_attempts(a) == IF a = 0 THEN UINT32_MAX ELSE a - 1

server_connect_to_entry ==
    /\ pc = "started"
    /\ IF server.direct
       THEN attempts' = DirectAttempts /\ pc' = "conn_video"
       ELSE IF server.tunnel_forward
            THEN attempts' = ForwardAttempts /\ pc' = "conn_video"
            ELSE pc' = "acc_video" /\ UNCHANGED attempts
    /\ UNCHANGED <<server, wpc, cfgVars, envVars, closeVars, bridgeVars,
                   sweepVars, established, controlAttempted, connect_ret,
                   syncVars, miscVars>>

\* connect_to_server(addr, port, attempts, delay), the do-while loop: n
\* probes have been made, the okAt-th call of connect_and_read_byte is the
\* first that succeeds.  The result is the socket and the probes made.
RECURSIVE connect_to_server(_, _, _)
connect_to_server(att, n, okAt) ==
    IF n + 1 = okAt
    THEN [socket |-> VideoSock, probes |-> n + 1]
    ELSE IF dec_attempts(att) > 0
         THEN connect_to_server(dec_attempts(att), n + 1, okAt)
         ELSE [socket |-> INVALID_SOCKET, probes |-> n + 1]

\* The environment's answer to the probes: the first, the second or the last
\* allowed probe is the first to succeed, or none does.
FirstOk(att) == {1, 2, att, att + 1}

\* Mutant of server_connect_video: a failed video connect does not return,
\* the control connect follows.
server_connect_video_no_return ==
    /\ pc = "conn_video"
    /\ \E okAt \in FirstOk(attempts) :
         LET res == connect_to_server(attempts, 0, okAt) IN
           /\ server' = [server EXCEPT !.video_socket = res.socket]
           /\ IF res.socket # INVALID_SOCKET
              THEN /\ sock' = [sock EXCEPT ![VideoSock] = "open"]
                   /\ established' = Append(established, "video")
              ELSE UNCHANGED <<sock, established>>
    /\ pc' = "conn_control"
    /\ UNCHANGED <<wpc, cfgVars, envVars, closeCalls, closeInvalid, closers,
                   assertFailed, bridgeVars, sweepVars, attempts,
                   controlAttempted, connect_ret, syncVars, miscVars>>

\* server->video_socket = connect_to_server(...), direct and forward mode
server_connect_video ==
    /\ pc = "conn_video"
    /\ \E okAt \in FirstOk(attempts) :
         LET res == connect_to_server(attempts, 0, okAt) IN
           /\ server' = [server EXCEPT !.video_socket = res.socket]
           /\ IF res.socket # INVALID_SOCKET
              THEN /\ sock' = [sock EXCEPT ![VideoSock] = "open"]
                   /\ established' = Append(established, "video")
                   /\ pc' = "conn_control"
                   /\ UNCHANGED connect_ret
              ELSE /\ connect_ret' = "false"
                   /\ pc' = "connect_failed"
                   /\ UNCHANGED <<sock, established>>
    /\ UNCHANGED <<wpc, cfgVars, envVars, closeCalls, closeInvalid, closers,
                   assertFailed, bridgeVars, sweepVars, attempts,
                   controlAttempted, syncVars, miscVars>>

\* Mutant of server_connect_control: a failed control connect forgets the
\* video socket.
server_connect_control_drops_video ==
    /\ pc = "conn_control"
    /\ controlAttempted' = TRUE
    /\ \E ok \in BOOLEAN :
         IF ok
         THEN /\ server' = [server EXCEPT !.control_socket = ControlSock]
              /\ sock' = [sock EXCEPT ![ControlSock] = "open"]
              /\ established' = Append(established, "control")
              /\ IF server.direct
                 THEN connect_ret' = "true" /\ pc' = "connected"
                 ELSE pc' = "conn_disable" /\ UNCHANGED connect_ret
         ELSE /\ server' = [server EXCEPT !.control_socket = INVALID_SOCKET,
                                          !.video_socket = INVALID_SOCKET]
              /\ connect_ret' = "false"
              /\ pc' = "connect_failed"
              /\ UNCHANGED <<sock, established>>
    /\ UNCHANGED <<wpc, cfgVars, envVars, closeCalls, closeInvalid, closers,
                   assertFailed, bridgeVars, sweepVars, attempts, syncVars,
                   miscVars>>

\* server->control_socket = net_connect(...), direct and forward mode
server_connect_control ==
    /\ pc = "conn_control"
    /\ controlAttempted' = TRUE
    /\ \E ok \in BOOLEAN :
         IF ok
         THEN /\ server' = [server EXCEPT !.control_socket = ControlSock]
              /\ sock' = [sock EXCEPT ![ControlSock] = "open"]
              /\ established' = Append(established, "control")
              /\ IF server.direct
                 THEN connect_ret' = "true" /\ pc' = "connected"
                 ELSE pc' = "conn_disable" /\ UNCHANGED connect_ret
         ELSE /\ server' = [server EXCEPT !.control_socket = INVALID_SOCKET]
              /\ connect_ret' = "false"
              /\ pc' = "connect_failed"
              /\ UNCHANGED <<sock, established>>
    /\ UNCHANGED <<wpc, cfgVars, envVars, closeCalls, closeInvalid, closers,
                   assertFailed, bridgeVars, sweepVars, attempts, syncVars,
                   miscVars>>

\* forward mode: disable_tunnel(server); server->tunnel_enabled = false
server_connect_disable ==
    /\ pc = "conn_disable"
    /\ \E ok \in BOOLEAN : disable_tunnel(ok)
    /\ server' = [server EXCEPT !.tunnel_enabled = FALSE]
    /\ connect_ret' = "true"
    /\ pc' = "connected"
    /\ UNCHANGED <<wpc, cfgVars, envVars, closeVars, sweepVars, attempts,
                   established, controlAttempted, syncVars, miscVars>>

\* net_accept(server->server_socket): returns a stream when one is pending
\* on the open listener, fails once the listener is closed, blocks otherwise
AcceptReturns == sock[ListenSock] = "closed"
                 \/ (sock[ListenSock] = "open" /\ backlog > 0)

\* server->video_socket = net_accept(server->server_socket)
server_connect_accept_video ==
    /\ pc = "acc_video"
    /\ AcceptReturns
    /\ IF sock[ListenSock] = "open"
       THEN /\ server' = [server EXCEPT !.video_socket = VideoSock]
            /\ sock' = [sock EXCEPT ![VideoSock] = "open"]
            /\ backlog' = backlog - 1
            /\ established' = Append(established, "video")
            /\ pc' = "acc_control"
            /\ UNCHANGED connect_ret
       ELSE /\ server' = [server EXCEPT !.video_socket = INVALID_SOCKET]
            /\ connect_ret' = "false"
            /\ pc' = "connect_failed"
            /\ UNCHANGED <<sock, backlog, established>>
    /\ UNCHANGED <<wpc, cfgVars, agent, reaped, closeCalls, closeInvalid,
                   closers, assertFailed, bridgeVars, sweepVars, attempts,
                   controlAttempted, syncVars, miscVars>>

\* server->control_socket = net_accept(server->server_socket)
server_connect_accept_control ==
    /\ pc = "acc_control"
    /\ AcceptReturns
    /\ controlAttempted' = TRUE
    /\ IF sock[ListenSock] = "open"
       THEN /\ server' = [server EXCEPT !.control_socket = ControlSock]
            /\ sock' = [sock EXCEPT ![ControlSock] = "open"]
            /\ backlog' = backlog - 1
            /\ established' = Append(established, "control")
            /\ pc' = "conn_tas"
            /\ UNCHANGED connect_ret
       ELSE /\ server' = [server EXCEPT !.control_socket = INVALID_SOCKET]
            /\ connect_ret' = "false"
            /\ pc' = "connect_failed"
            /\ UNCHANGED <<sock, backlog, established>>
    /\ UNCHANGED <<wpc, cfgVars, agent, reaped, closeCalls, closeInvalid,
                   closers, assertFailed, bridgeVars, sweepVars, attempts,
                   syncVars, miscVars>>

\* Mutant of server_connect_tas: the flag is taken, the listener is not
\* closed by the winner.
server_connect_tas_no_close ==
    /\ pc = "conn_tas"
    /\ atomic_flag_test_and_set("connect")
    /\ connect_ret' = "true"
    /\ pc' = "connected"
    /\ UNCHANGED <<wpc, cfgVars, envVars, closeVars, bridgeVars, sweepVars,
                   attempts, established, controlAttempted, syncVars,
                   boundPort, start_ret, serialFrees, httpLog, syncDestroyed,
                   terminateCalls>>

\* if (!atomic_flag_test_and_set(&server->server_socket_closed))
server_connect_tas ==
    /\ pc = "conn_tas"
    /\ atomic_flag_test_and_set("connect")
    /\ IF server.server_socket_closed
       THEN connect_ret' = "true" /\ pc' = "connected"
       ELSE pc' = "conn_close" /\ UNCHANGED connect_ret
    /\ UNCHANGED <<wpc, cfgVars, envVars, closeVars, bridgeVars, sweepVars,
                   attempts, established, controlAttempted, syncVars,
                   boundPort, start_ret, serialFrees, httpLog, syncDestroyed,
                   terminateCalls>>

\* close_socket(server->server_socket); return true
server_connect_close ==
    /\ pc = "conn_close"
    /\ close_socket(server.server_socket, "connect")
    /\ connect_ret' = "true"
    /\ pc' = "connected"
    /\ UNCHANGED <<server, wpc, cfgVars, envVars, bridgeVars, sweepVars,
                   attempts, established, controlAttempted, syncVars,
                   miscVars>>

server_connect_to ==
    \/ server_connect_to_entry
    \/ server_connect_video
    \/ server_connect_control
    \/ server_connect_disable
    \/ server_connect_accept_video
    \/ server_connect_accept_control
    \/ server_connect_tas
    \/ server_connect_close

\* ------------------------------------------------------------- server_stop
\* if (server_socket != INVALID_SOCKET && !atomic_flag_test_and_set(...))
server_stop_entry ==
    /\ pc \in {"started", "connected", "connect_failed"}
    /\ IF server.server_socket # INVALID_SOCKET
       THEN /\ atomic_flag_test_and_set("stop")
            /\ pc' = IF server.server_socket_closed
                     THEN "stop_close_video" ELSE "stop_close_listen"
       ELSE /\ pc' = "stop_close_video"
            /\ UNCHANGED <<server, tasWinners>>
    /\ UNCHANGED <<wpc, cfgVars, envVars, closeVars, bridgeVars, sweepVars,
                   connVars, syncVars, boundPort, start_ret, serialFrees,
                   httpLog, syncDestroyed, terminateCalls>>

\* close_socket(server->server_socket)
server_stop_close_listen ==
    /\ pc = "stop_close_listen"
    /\ close_socket(server.server_socket, "stop")
    /\ pc' = "stop_close_video"
    /\ UNCHANGED <<server, wpc, cfgVars, envVars, bridgeVars, sweepVars,
                   connVars, syncVars, miscVars>>

\* if (video_socket != INVALID_SOCKET) close_socket(video_socket)
server_stop_close_video ==
    /\ pc = "stop_close_video"
    /\ IF server.video_socket # INVALID_SOCKET
       THEN close_socket(server.video_socket, "stop")
       ELSE UNCHANGED closeVars
    /\ pc' = "stop_close_control"
    /\ UNCHANGED <<server, wpc, cfgVars, envVars, bridgeVars, sweepVars,
                   connVars, syncVars, miscVars>>

\* if (control_socket != INVALID_SOCKET) close_socket(control_socket)
server_stop_close_control ==
    /\ pc = "stop_close_control"
    /\ IF server.control_socket # INVALID_SOCKET
       THEN close_socket(server.control_socket, "stop")
       ELSE UNCHANGED closeVars
    /\ pc' = "stop_assert"
    /\ UNCHANGED <<server, wpc, cfgVars, envVars, bridgeVars, sweepVars,
                   connVars, syncVars, miscVars>>

\* assert(server->process != PROCESS_NONE)
server_stop_assert ==
    /\ pc = "stop_assert"
    /\ assertFailed' = IF server.process # PROCESS_NONE
                       THEN assertFailed
                       ELSE assertFailed \cup {"server_stop"}
    /\ pc' \in AfterAssert(server.process # PROCESS_NONE, "stop_tunnel")
    /\ UNCHANGED <<server, wpc, cfgVars, envVars, sock, closeCalls,
                   closeInvalid, closers, bridgeVars, sweepVars, connVars,
                   syncVars, miscVars>>

\* if (tunnel_enabled && !direct) disable_tunnel(server);
\* if (direct) stop_server_curl(server)
server_stop_tunnel ==
    /\ pc = "stop_tunnel"
    /\ IF server.tunnel_enabled /\ ~server.direct
       THEN \E ok \in BOOLEAN : disable_tunnel(ok)
       ELSE UNCHANGED bridgeVars
    /\ httpLog' = IF server.direct
                  THEN Append(httpLog, "stopScrcpy") ELSE httpLog
    /\ pc' = "stop_lock"
    /\ UNCHANGED <<server, wpc, cfgVars, envVars, closeVars, sweepVars,
                   connVars, syncVars, boundPort, tasWinners, start_ret,
                   serialFrees, syncDestroyed, terminateCalls>>

\* mutex_lock(server->mutex)
server_stop_lock ==
    /\ pc = "stop_lock"
    /\ mutex = "free"
    /\ mutex' = "stop"
    /\ pc' = "stop_check"
    /\ UNCHANGED <<server, wpc, cfgVars, envVars, closeVars, bridgeVars,
                   sweepVars, connVars, signalled, r, miscVars>>

\* int r = 0; if (!process_terminated) r = cond_wait_timeout(...): the wait
\* releases the mutex and sleeps
server_stop_check ==
    /\ pc = "stop_check"
    /\ r' = "0"
    /\ IF ~server.process_terminated
       THEN /\ mutex' = "free"
            /\ signalled' = FALSE
            /\ pc' = "stop_waiting"
       ELSE /\ pc' = "stop_unlock"
            /\ UNCHANGED <<mutex, signalled>>
    /\ UNCHANGED <<server, wpc, cfgVars, envVars, closeVars, bridgeVars,
                   sweepVars, connVars, miscVars>>

\* cond_wait_timeout: woken by cond_signal
server_stop_wakeup ==
    /\ pc = "stop_waiting"
    /\ signalled
    /\ r' = "0"
    /\ pc' = "stop_reacquire"
    /\ UNCHANGED <<server, wpc, cfgVars, envVars, closeVars, bridgeVars,
                   sweepVars, connVars, mutex, signalled, miscVars>>

\* cond_wait_timeout: WATCHDOG_DELAY_MS elapsed with no signal
server_stop_timeout ==
    /\ pc = "stop_waiting"
    /\ ~signalled
    /\ r' = SDL_MUTEX_TIMEDOUT
    /\ pc' = "stop_reacquire"
    /\ UNCHANGED <<server, wpc, cfgVars, envVars, closeVars, bridgeVars,
                   sweepVars, connVars, mutex, signalled, miscVars>>

\* cond_wait_timeout: takes the mutex again before it returns
server_stop_reacquire ==
    /\ pc = "stop_reacquire"
    /\ mutex = "free"
    /\ mutex' = "stop"
    /\ pc' = "stop_unlock"
    /\ UNCHANGED <<server, wpc, cfgVars, envVars, closeVars, bridgeVars,
                   sweepVars, connVars, signalled, r, miscVars>>

\* Mutant of server_stop_unlock: the result of the wait is ignored, the
\* agent is always terminated.
server_stop_unlock_always_terminate ==
    /\ pc = "stop_unlock"
    /\ mutex' = "free"
    /\ pc' = "stop_terminate"
    /\ UNCHANGED <<server, wpc, cfgVars, envVars, closeVars, bridgeVars,
                   sweepVars, connVars, signalled, r, miscVars>>

\* mutex_unlock(server->mutex)
server_stop_unlock ==
    /\ pc = "stop_unlock"
    /\ mutex' = "free"
    /\ pc' = IF r = SDL_MUTEX_TIMEDOUT THEN "stop_terminate" ELSE "stop_join"
    /\ UNCHANGED <<server, wpc, cfgVars, envVars, closeVars, bridgeVars,
                   sweepVars, connVars, signalled, r, miscVars>>

\* Mutant of server_stop_terminate: the agent is not terminated after the
\* timeout.
server_stop_terminate_skipped ==
    /\ pc = "stop_terminate"
    /\ pc' = "stop_join"
    /\ UNCHANGED <<server, wpc, cfgVars, envVars, closeVars, bridgeVars,
                   sweepVars, connVars, syncVars, miscVars>>

\* if (r == SDL_MUTEX_TIMEDOUT) cmd_terminate(server->process)
server_stop_terminate ==
    /\ pc = "stop_terminate"
    /\ cmd_terminate(server.process)
    /\ pc' = "stop_join"
    /\ UNCHANGED <<server, wpc, cfgVars, reaped, backlog, closeVars,
                   bridgeVars, sweepVars, connVars, syncVars, boundPort,
                   tasWinners, start_ret, serialFrees, httpLog, syncDestroyed>>

\* Mutant of server_stop_join: stop returns without waiting for the watchdog
\* thread to end.
server_stop_join_no_wait ==
    /\ pc = "stop_join"
    /\ pc' = "stopped"
    /\ UNCHANGED <<server, wpc, cfgVars, envVars, closeVars, bridgeVars,
                   sweepVars, connVars, syncVars, miscVars>>

\* SDL_WaitThread(server->wait_server_thread, NULL); return
server_stop_join ==
    /\ pc = "stop_join"
    /\ wpc = "done"
    /\ wpc' = "joined"
    /\ pc' = "stopped"
    /\ UNCHANGED <<server, cfgVars, envVars, closeVars, bridgeVars, sweepVars,
                   connVars, syncVars, miscVars>>

server_stop ==
    \/ server_stop_entry
    \/ server_stop_close_listen
    \/ server_stop_close_video
    \/ server_stop_close_control
    \/ server_stop_assert
    \/ server_stop_tunnel
    \/ server_stop_lock
    \/ server_stop_check
    \/ server_stop_wakeup
    \/ server_stop_timeout
    \/ server_stop_reacquire
    \/ server_stop_unlock
    \/ server_stop_terminate
    \/ server_stop_join

\* ---------------------------------------------------------- server_destroy
\* SDL_free(serial); SDL_free(url); SDL_DestroyCond; SDL_DestroyMutex
server_destroy ==
    /\ pc \in {"initialized", "start_failed", "stopped"}
    /\ SDL_free_serial(server)
    /\ syncDestroyed' = TRUE
    /\ pc' = "destroyed"
    /\ UNCHANGED <<wpc, cfgVars, envVars, closeVars, bridgeVars, sweepVars,
                   connVars, syncVars, boundPort, tasWinners, start_ret,
                   httpLog, terminateCalls>>

Next ==
    \/ server_start
    \/ server_connect_to
    \/ server_stop
    \/ server_destroy
    \/ run_wait_server
    \/ agent_connects
    \/ agent_exits

Spec == Init /\ [][Next]_vars

\* The scheduler runs both threads: the watchdog goes on once cmd_simple_wait
\* on the agent can return, and the lifecycle thread goes on inside
\* server_connect_to and inside server_stop whenever its next step can be
\* taken (the timed wait of server_stop ends within WATCHDOG_DELAY_MS).
\* Whether and when the caller calls server_stop is left open.
LifecycleProgress ==
    \/ server_connect_to
    \/ server_stop_close_listen
    \/ server_stop_close_video
    \/ server_stop_close_control
    \/ server_stop_assert
    \/ server_stop_tunnel
    \/ server_stop_lock
    \/ server_stop_check
    \/ server_stop_wakeup
    \/ server_stop_timeout
    \/ server_stop_reacquire
    \/ server_stop_unlock
    \/ server_stop_terminate
    \/ server_stop_join

WatchdogProgress ==
    \/ run_wait_server_wait
    \/ run_wait_server_lock
    \/ run_wait_server_signal
    \/ run_wait_server_unlock
    \/ run_wait_server_check
    \/ run_wait_server_close

\* connect_to_server on its own, one step of its loop at a time: any
\* attempts in 0..MaxAttempts, and the okAt-th probe the first to succeed
\* (okAt > attempts: none does within attempts probes).  loop.given keeps the
\* argument, loop.attempts is the parameter the loop counts down.
ConnectInit ==
    /\ server = server_init
    /\ params = [port_range |-> [first |-> UINT16_MAX, last |-> UINT16_MAX],
                 force_adb_forward |-> FALSE, serial |-> FALSE]
    /\ busy = {}
    /\ InitState
    /\ \E a \in 0..MaxAttempts, k \in 1..(MaxAttempts + 1) :
         loop = [NoLoop EXCEPT !.state = "probe", !.given = a,
                               !.attempts = a, !.okAt = k]

ConnectUnchanged ==
    UNCHANGED <<server, pc, wpc, params, busy, envVars, closeVars,
                bridgeVars, sweepVars, connVars, syncVars, miscVars>>

\* socket = connect_and_read_byte(...); if (socket != INVALID_SOCKET) return
connect_to_server_probe ==
    /\ loop.state = "probe"
    /\ loop' = IF loop.probes + 1 = loop.okAt
               THEN [loop EXCEPT !.probes = @ + 1, !.socket = VideoSock,
                                 !.state = "returned"]
               ELSE [loop EXCEPT !.probes = @ + 1, !.state = "delay"]
    /\ ConnectUnchanged

\* if (attempts) SDL_Delay(delay)
connect_to_server_delay ==
    /\ loop.state = "delay"
    /\ loop' = [loop EXCEPT !.sleeps = IF loop.attempts # 0 THEN @ + 1 ELSE @,
                            !.lastWasDelay = loop.attempts # 0,
                            !.state = "test"]
    /\ ConnectUnchanged

\* while (--attempts > 0); return INVALID_SOCKET
connect_to_server_test ==
    /\ loop.state = "test"
    /\ loop' = IF dec_attempts(loop.attempts) > 0
               THEN [loop EXCEPT !.attempts = dec_attempts(@),
                                 !.lastWasDelay = FALSE,
                                 !.state = "probe"]
               ELSE [loop EXCEPT !.attempts = dec_attempts(@),
                                 !.state = "returned"]
    /\ ConnectUnchanged

ConnectNext ==
    \/ connect_to_server_probe
    \/ connect_to_server_delay
    \/ connect_to_server_test

ConnectSpec == ConnectInit /\ [][ConnectNext]_vars

FairSpec ==
    /\ Spec
    /\ WF_vars(WatchdogProgress)
    /\ WF_vars(LifecycleProgress)

\* ================================================================== claims
ReverseMode == ~server.direct /\ ~server.tunnel_forward
ListenOpened == sock[ListenSock] # "unopened"
LifecycleEnded == pc \in {"start_failed", "stopped", "destroyed"}

\* C1: the listening socket is closed at most once at any time, exactly once
\* by the time a failed start or stop has returned, and only by the one actor
\* that found server_socket_closed clear in its test-and-set.
C1_SingleClose ==
    /\ closeCalls[ListenSock] <= 1
    /\ Cardinality(tasWinners) <= 1
    /\ closers \subseteq tasWinners
    /\ (ListenOpened /\ LifecycleEnded) =>
           /\ closeCalls[ListenSock] = 1
           /\ sock[ListenSock] = "closed"

\* C1 witness: stop has returned after losing the test-and-set to the
\* watchdog, which closed the listener.
C1_Witness ==
    /\ pc = "stopped"
    /\ closers = {"watchdog"}
    /\ closeCalls[ListenSock] = 1

\* C2: in reverse mode, once the agent has exited having connected fewer
\* than two streams, a server_connect_to that is (or gets) inside accept
\* eventually returns false.
C2_AgentDeathUnblocksAccept ==
    (ReverseMode /\ pc \in {"acc_video", "acc_control"}
       /\ agent = "exited" /\ AgentStreams < 2)
    ~> (connect_ret = "false")

\* C2 witness: the agent died between the first and the second accept, the
\* watchdog closed the listener and connect returned false.
C2_Witness ==
    /\ ReverseMode
    /\ connect_ret = "false"
    /\ server.video_socket = VideoSock
    /\ server.control_socket = INVALID_SOCKET
    /\ agent = "exited"
    /\ closers = {"watchdog"}

\* C3: every tunnel the bridge was made to register has had its matching
\* remove issued when the lifecycle has ended, and when a forward-mode
\* connect has returned true.
C3_TunnelSymmetry ==
    /\ LifecycleEnded => owed = {}
    /\ (pc = "connected" /\ server.tunnel_forward) => owed = {}

\* C3 witness: reverse mode, a port of the sweep failed at listen, start
\* succeeded and stop has returned.
C3_Witness ==
    /\ pc = "stopped"
    /\ ReverseMode
    /\ Len(sweepLog) > 3
    /\ owed = {}

\* C4: after server_stop has returned every socket that was opened is
\* closed, the agent has been waited on, the watchdog is joined and
\* tunnel_enabled is false.
C4_AfterStop ==
    pc = "stopped" =>
        /\ \A h \in DOMAIN sock : sock[h] # "open"
        /\ server.process # PROCESS_NONE => reaped
        /\ wpc = "joined"
        /\ ~server.tunnel_enabled

\* C5: between lifecycle calls, tunnel_enabled implies that exactly one
\* tunnel is registered in the bridge, the reverse tunnel or the forward
\* tunnel at local_port (no remove command having failed).
BetweenCalls ==
    pc \in {"initialized", "start_failed", "started", "connected",
            "connect_failed", "stopped"}

C5_TunnelEnabledMeansRegistered ==
    (BetweenCalls /\ server.tunnel_enabled /\ ~removeFailed) =>
        /\ Cardinality(tunnels) = 1
        /\ \A t \in tunnels :
             t.kind = "reverse" \/ t = ForwardTunnel(server.local_port)

StreamsValid ==
    /\ server.video_socket = VideoSock /\ sock[VideoSock] = "open"
    /\ server.control_socket = ControlSock /\ sock[ControlSock] = "open"

\* C6 as stated: when server_connect_to has returned true both streams are
\* valid and the listener is already closed (reverse) or was never opened.
C6_ListenerClosedAtReturn ==
    pc = "connected" =>
        /\ StreamsValid
        /\ IF ReverseMode
           THEN sock[ListenSock] = "closed"
           ELSE sock[ListenSock] = "unopened"

\* C6 amended: when server_connect_to has returned true both streams are
\* valid and, in reverse mode, server_socket_closed is set and the listener
\* is closed or the watchdog, having won the test-and-set, is at its
\* close_socket call; in forward and direct mode it was never opened.
C6_CloseAuthorityTakenAtReturn ==
    pc = "connected" =>
        /\ StreamsValid
        /\ IF ReverseMode
           THEN /\ server.server_socket_closed
                /\ \/ sock[ListenSock] = "closed"
                   \/ (wpc = "close" /\ tasWinners = {"watchdog"})
           ELSE sock[ListenSock] = "unopened"

\* C6 witness: connect returned true while the watchdog, winner of the
\* test-and-set, has not closed the listener yet.
C6_Witness ==
    /\ pc = "connected"
    /\ ReverseMode
    /\ wpc = "close"
    /\ sock[ListenSock] = "open"

\* C7: the control accept/connect is issued only after the video stream is
\* established, so the streams are established in the order video, control.
C7_VideoBeforeControl ==
    /\ controlAttempted =>
           /\ server.video_socket = VideoSock
           /\ Len(established) >= 1
           /\ established[1] = "video"
    /\ established \in {<<>>, <<"video">>, <<"video", "control">>}
    /\ connect_ret = "true" => established = <<"video", "control">>

\* C7 witness: a direct-mode connect whose control connect failed after the
\* video stream was established.
C7_Witness ==
    /\ server.direct
    /\ controlAttempted
    /\ connect_ret = "false"
    /\ established = <<"video">>

\* Ports on which the reverse sweep issued adb reverse, in order.
RevTried ==
    LET cmds == SelectSeq(sweepLog, LAMBDA e : e[1] = "reverse")
    IN [i \in 1..Len(cmds) |-> cmds[i][2]]

RevRemoves == SelectSeq(sweepLog, LAMBDA e : e[1] = "remove")

SweepInRange(t) ==
    /\ \A i \in 1..Len(t) :
         params.port_range.first <= t[i] /\ t[i] <= params.port_range.last
    /\ \A i, j \in 1..Len(t) : i < j => t[i] < t[j]
    /\ Len(t) <= params.port_range.last - params.port_range.first + 1

InSweep == pc \in {"rev_enable", "rev_listen", "rev_disable", "fwd_begin",
                   "fwd_enable"}

PortInRange ==
    params.port_range.first <= port /\ port <= params.port_range.last

\* C8: both probe loops try only ports of the range, in strictly increasing
\* order, at most last-first+1 of them, and never wrap the 16-bit counter;
\* they terminate: every iteration has a step to take and a port above all
\* the ports tried before it; on {65535,65535} with listen failing one port
\* is tried, one reverse_remove is issued and the reverse loop fails.
C8_PortSweep ==
    /\ ~wrapped
    /\ SweepInRange(RevTried)
    /\ SweepInRange(fwdLog)
    /\ pc \in {"rev_enable", "rev_listen", "rev_disable"} => PortInRange
    /\ pc = "rev_enable" =>
           \A i \in 1..Len(RevTried) : RevTried[i] < port
    /\ pc = "fwd_enable" =>
           /\ PortInRange
           /\ \A i \in 1..Len(fwdLog) : fwdLog[i] < port
    /\ InSweep => ENABLED server_start
    /\ (/\ params.port_range.first = UINT16_MAX
        /\ UINT16_MAX \in busy
        /\ revResult # "none"
        /\ ~revCmdFailed) =>
           /\ revResult = "fail"
           /\ RevTried = <<UINT16_MAX>>
           /\ Len(RevRemoves) = 1

\* C8 witness: the reverse loop has failed on the range {65535,65535}.
C8_Witness ==
    /\ params.port_range.first = UINT16_MAX
    /\ UINT16_MAX \in busy
    /\ revResult = "fail"
    /\ ~revCmdFailed
    /\ Len(RevRemoves) = 1

FreePorts ==
    {p \in params.port_range.first..params.port_range.last : p \notin busy}

IsLowest(p, S) == p \in S /\ \A q \in S : p <= q

\* C9: when every adb reverse command (tunnel and --remove) succeeds, the
\* reverse sweep ends on the lowest port on which listen succeeds, bound to
\* the listener; every failed listen is followed at once by one
\* reverse_remove, there is no other reverse_remove, and none after the
\* successful listen; if listen fails everywhere the sweep fails with no
\* reverse tunnel registered and server_socket invalid.
C9_ReverseSweepResult ==
    (revResult # "none" /\ ~revCmdFailed /\ ~removeFailed) =>
        /\ \A i \in 1..Len(sweepLog) :
             /\ (sweepLog[i][1] = "listen" /\ ~sweepLog[i][3]) =>
                    /\ i < Len(sweepLog)
                    /\ sweepLog[i + 1] = <<"remove", sweepLog[i][2], TRUE>>
             /\ sweepLog[i][1] = "remove" =>
                    /\ i > 1
                    /\ sweepLog[i - 1] = <<"listen", sweepLog[i][2], FALSE>>
        /\ revResult = "ok" =>
               /\ IsLowest(server.local_port, FreePorts)
               /\ server.server_socket = ListenSock
               /\ boundPort = server.local_port
               /\ sweepLog[Len(sweepLog)] =
                      <<"listen", server.local_port, TRUE>>
        /\ revResult = "fail" =>
               /\ FreePorts = {}
               /\ server.server_socket = INVALID_SOCKET
               /\ sock[ListenSock] = "unopened"
               /\ \A t \in tunnels : t.kind # "reverse"

\* C9 witness: two busy ports, the third one free: two removes, then the
\* listener on the third port.
C9_Witness ==
    /\ revResult = "ok"
    /\ ~revCmdFailed /\ ~removeFailed
    /\ Len(RevRemoves) = 2
    /\ server.local_port = params.port_range.first + 2

\* C10: while run_wait_server runs server->process is a valid handle, and
\* when server_start has returned true the watchdog thread handle is set
\* and, outside direct mode, so is the process handle.
C10_ProcessBeforeWatchdog ==
    /\ wpc \in {"wait", "lock", "set", "unlock", "check", "close"} =>
           server.process # PROCESS_NONE
    /\ start_ret = "true" =>
           /\ server.wait_server_thread # "NULL"
           /\ ~server.direct => server.process # PROCESS_NONE

StopCount == Cardinality({i \in 1..Len(httpLog) : httpLog[i] = "stopScrcpy"})

\* C11: in direct mode, once server_start has returned true, server_stop is
\* never cut short, and when it has returned it has issued exactly one
\* HttpCtl.stop, no bridge remove command (none has failed, none has changed
\* the bridge), and has joined the watchdog thread.
C11_DirectStopCompletes ==
    (server.direct /\ start_ret = "true") =>
        /\ pc # "aborted"
        /\ pc = "stopped" =>
               /\ StopCount = 1
               /\ ~removeFailed /\ tunnels = {}
               /\ wpc = "joined"

StopPoints ==
    {"stop_close_listen", "stop_close_video", "stop_close_control",
     "stop_assert", "stop_tunnel", "stop_lock", "stop_check",
     "stop_waiting", "stop_reacquire", "stop_unlock",
     "stop_terminate", "stop_join"}

InStop == pc \in StopPoints

\* server_stop has returned as it should: the watchdog is joined, the mutex
\* is free, and if the timed wait timed out the agent's handle was passed to
\* cmd_terminate, once.
StopReturned ==
    /\ pc = "stopped"
    /\ wpc = "joined"
    /\ mutex = "free"
    /\ r = SDL_MUTEX_TIMEDOUT => terminateCalls = <<AgentProcess>>

\* C12: outside direct mode a server_stop that has been entered always
\* returns, whatever the watchdog does meanwhile; it has then joined the
\* watchdog, and if its one timed wait timed out it has terminated the agent.
C12_StopReturns == (~server.direct /\ InStop) ~> StopReturned

\* C12 witness: stop has returned after its wait timed out on a live agent.
C12_Witness ==
    /\ ~server.direct
    /\ pc = "stopped"
    /\ r = SDL_MUTEX_TIMEDOUT
    /\ terminateCalls = <<AgentProcess>>
    /\ wpc = "joined"

\* The tunnel server_start relies on, by the mode and port it recorded.
RecordedTunnel ==
    IF server.tunnel_forward
    THEN ForwardTunnel(server.local_port)
    ELSE ReverseTunnel(server.local_port)

AllPortsInOrder ==
    [i \in 1..(params.port_range.last - params.port_range.first + 1) |->
        params.port_range.first + i - 1]

\* enable_tunnel_any_port has returned false: the forward sweep was tried and
\* no strategy recorded a port (both sweeps write local_port on success only,
\* and no port of a range is 0).
TunnelFailed ==
    /\ pc \in {"error1", "start_failed"}
    /\ fwdLog # <<>>
    /\ server.local_port = 0

\* C13: with force_adb_forward no adb reverse command is ever issued; without
\* it adb forward is issued only after the reverse strategy has returned
\* failure; the forward sweep starts at port_range.first; when
\* enable_tunnel_any_port returns true the one tunnel left to remove is the
\* one of the recorded mode on local_port, tunnel_forward tells whether the
\* reverse strategy was not the one that succeeded, and server_socket is
\* valid (open, bound to local_port) iff the mode is reverse; it returns
\* false only after every attempted strategy failed on every port.
C13_TunnelCascade ==
    /\ params.force_adb_forward =>
           /\ sweepLog = <<>>
           /\ revResult = "none"
           /\ \A t \in tunnels : t.kind # "reverse"
    /\ (~params.force_adb_forward /\ fwdLog # <<>>) => revResult = "fail"
    /\ fwdLog # <<>> => fwdLog[1] = params.port_range.first
    /\ pc = "start_exec" =>
           /\ owed = {RecordedTunnel}
           /\ RecordedTunnel \in tunnels
           /\ server.tunnel_forward <=> revResult # "ok"
           /\ server.tunnel_forward <=> fwdLog # <<>>
           /\ server.server_socket # INVALID_SOCKET <=> ~server.tunnel_forward
           /\ ~server.tunnel_forward =>
                  /\ sock[server.server_socket] = "open"
                  /\ boundPort = server.local_port
    /\ TunnelFailed =>
           /\ ~params.force_adb_forward => revResult = "fail"
           /\ fwdLog = AllPortsInOrder
           /\ owed = {}
           /\ \A t \in tunnels : t.kind # "forward"
           /\ server.server_socket = INVALID_SOCKET
    /\ (pc = "error1" /\ ~server.direct /\ server.local_port = 0
          /\ fwdLog = <<>>) => sweepLog = <<>>

\* C13 witness: the reverse strategy failed, the forward sweep began again
\* at the first port and succeeded on its second port.
C13_Witness ==
    /\ pc = "start_exec"
    /\ ~params.force_adb_forward
    /\ revResult = "fail"
    /\ server.tunnel_forward
    /\ Len(fwdLog) = 2
    /\ server.local_port = params.port_range.first + 1

Handles == {ListenSock, VideoSock, ControlSock}

\* C14: outside direct mode a failing server_start is never cut short and
\* unwinds in reverse order.  At error2 the tunnel is still to be removed
\* and an agent that was launched has been terminated and waited on; the
\* listener is closed, through the test-and-set, before the tunnel remove is
\* issued; after a push or tunnel failure nothing was left to release; when
\* false has been returned no socket is open, no tunnel is left to remove,
\* no watchdog thread exists and the duplicated serial has been freed once.
C14_FailedStartUnwinds ==
    ~server.direct =>
        /\ start_ret = "none" => pc # "aborted"
        /\ pc \in {"error2", "error2_tunnel"} =>
               /\ owed = {RecordedTunnel}
               /\ agent # "alive"
               /\ server.process = AgentProcess =>
                      /\ terminateCalls = <<AgentProcess>>
                      /\ reaped
               /\ ReverseMode =>
                      /\ pc = "error2" => sock[ListenSock] = "open"
                      /\ pc = "error2_tunnel" =>
                             /\ sock[ListenSock] = "closed"
                             /\ closers = {"start"}
                             /\ tasWinners = {"start"}
        /\ (pc = "error1" /\ server.local_port = 0) =>
               /\ owed = {}
               /\ \A h \in Handles : sock[h] # "open" /\ closeCalls[h] = 0
        /\ pc = "start_failed" =>
               /\ start_ret = "false"
               /\ owed = {}
               /\ \A h \in Handles : sock[h] # "open"
               /\ ListenOpened =>
                      closeCalls[ListenSock] = 1 /\ closers = {"start"}
               /\ agent # "alive"
               /\ server.wait_server_thread = "NULL"
               /\ wpc = "none"
               /\ server.serial # "owned"
               /\ serialFrees = IF server.serial = "freed" THEN 1 ELSE 0

\* C14 witness: reverse mode, the agent was launched and the watchdog could
\* not be spawned; start has returned false.
C14_Witness ==
    /\ ReverseMode
    /\ pc = "start_failed"
    /\ terminateCalls = <<AgentProcess>>
    /\ reaped
    /\ sock[ListenSock] = "closed"
    /\ tunnels = {}
    /\ server.serial = "freed"

\* C15: in direct mode, when execute_server_curl has failed, server_start is
\* not cut short, and when it has returned false it has issued
\* stop_server_curl once after the start request, freed the serial, issued no
\* bridge command and spawned no watchdog.
C15_DirectStartFailure ==
    (server.direct /\ start_ret # "true" /\ httpLog # <<>>) =>
        /\ pc # "aborted"
        /\ "close_socket" \notin assertFailed
        /\ pc \in {"start_failed", "destroyed"} =>
               /\ start_ret = "false"
               /\ httpLog = <<"startScrcpy", "stopScrcpy">>
               /\ tunnels = {} /\ ~removeFailed
               /\ sweepLog = <<>> /\ fwdLog = <<>>
               /\ wpc = "none"
               /\ server.wait_server_thread = "NULL"
               /\ server.serial # "owned"

\* C16: server_stop calls cmd_terminate iff its timed wait timed out.  When
\* process_terminated is already set as stop holds the mutex, stop cannot
\* enter the wait; a stop found waiting with the flag set has been signalled
\* during that wait; a signalled wait cannot time out, returns 0, and no
\* cmd_terminate follows.  process_terminated is set exactly from the
\* watchdog's write on, and the watchdog holds the mutex around that write,
\* as stop does around its read.
C16_TerminateIffTimedOut ==
    /\ start_ret = "true" =>
           /\ Len(terminateCalls) <= 1
           /\ terminateCalls # <<>> =>
                  r = SDL_MUTEX_TIMEDOUT /\ pc \notin {"stop_terminate"}
           /\ (pc \in {"stop_join", "stopped", "destroyed"}
                 /\ r = SDL_MUTEX_TIMEDOUT) => Len(terminateCalls) = 1
           /\ pc = "stop_terminate" => r = SDL_MUTEX_TIMEDOUT
    /\ (pc = "stop_check" /\ server.process_terminated) =>
           ~ENABLED (server_stop_check /\ pc' = "stop_waiting")
    /\ (pc = "stop_waiting" /\ server.process_terminated) => signalled
    /\ signalled =>
           /\ r = "0"
           /\ terminateCalls = <<>>
           /\ ~ENABLED server_stop_timeout
    /\ r = SDL_MUTEX_TIMEDOUT => start_ret = "true"
    /\ server.process_terminated <=>
           wpc \in {"unlock", "check", "close", "done", "joined"}
    /\ wpc \in {"set", "unlock"} <=> mutex = "watchdog"
    /\ pc \in {"stop_check", "stop_unlock"} <=> mutex = "stop"

\* C16 witness: the watchdog signalled while stop was waiting; stop has
\* returned without cmd_terminate.
C16_Witness ==
    /\ pc = "stopped"
    /\ signalled
    /\ r = "0"
    /\ terminateCalls = <<>>
    /\ server.process_terminated

\* C17: for every attempts, connect_to_server calls connect_and_read_byte at
\* most attempts times, returns the socket of the first successful probe (a
\* valid socket iff one of the first attempts probes succeeds) and
\* INVALID_SOCKET otherwise, and calls SDL_Delay only between two probes:
\* never as its last act before it returns.
C17_BoundedRetry ==
    /\ loop.probes <= loop.given
    /\ loop.state = "returned" =>
           /\ loop.socket # INVALID_SOCKET <=> loop.okAt <= loop.given
           /\ loop.socket # INVALID_SOCKET => loop.probes = loop.okAt
           /\ ~loop.lastWasDelay
           /\ loop.sleeps = loop.probes - 1

\* server_connect_to has returned false on the control stream, the video
\* stream being established.
ControlFailed ==
    /\ connect_ret = "false"
    /\ controlAttempted
    /\ established = <<"video">>

C19_CloseSocketValid ==
    /\ closeInvalid = 0
    /\ "close_socket" \notin assertFailed

\* C20: whenever server_stop runs after server_start returned true, in any
\* mode, server->process is a valid handle: stop's assertion holds, and the
\* handle stop passes to cmd_terminate is the agent's.
C20_StopProcessValid ==
    /\ "server_stop" \notin assertFailed
    /\ InStop => server.process # PROCESS_NONE
    /\ start_ret = "true" =>
           \A i \in 1..Len(terminateCalls) : terminateCalls[i] = AgentProcess

\* C21: the duplicated serial is freed at most once at any time, and exactly
\* once when server_destroy has returned.
C21_SerialFreedOnce ==
    /\ serialFrees <= 1
    /\ (pc = "destroyed" /\ server.serial # "NULL") => serialFrees = 1

WatchdogRunning == wpc \in {"wait", "lock", "set", "unlock", "check", "close"}

\* C22: when server_stop has returned after a successful start the watchdog
\* thread has been joined, holds no mutex and can take no further step, so
\* the mutex and the condition variable are never destroyed while the
\* watchdog is running or has yet to be joined.
C22_WatchdogDoneBeforeDestroy ==
    /\ (start_ret = "true" /\ pc \in {"stopped", "destroyed"}) =>
           /\ wpc = "joined"
           /\ mutex = "free"
           /\ ~ENABLED run_wait_server
    /\ syncDestroyed =>
           /\ pc = "destroyed"
           /\ wpc \in {"none", "joined"}
    /\ (WatchdogRunning \/ wpc = "done") => ~syncDestroyed

\* C22 witness: reverse mode; the watchdog signalled, won the test-and-set
\* and closed the listener, stop joined it, and destroy has run.
C22_Witness ==
    /\ pc = "destroyed"
    /\ start_ret = "true"
    /\ syncDestroyed
    /\ wpc = "joined"
    /\ server.process_terminated
    /\ closers = {"watchdog"}

====
